---------------------------- MODULE Spec2Model ----------------------------
(***************************************************************************)
(* A model of grad.h, a single-header automatic differentiation library.   *)
(*                                                                         *)
(* The forward engine is the global grad_forward_current_id together with  *)
(* the grad_forward_t values the caller holds; the reverse engine is the   *)
(* global array grad_reverse_tape and the global grad_reverse_current_id.  *)
(* Every library function is a pure operator on that state, named as in    *)
(* the source, and every call of the caller is one action.                 *)
(*                                                                         *)
(* grad_real_t is modelled by exact rationals extended with the IEEE       *)
(* special values:  a number is a record [n, d] where                      *)
(*     d > 0            the rational n/d in lowest terms,                  *)
(*     d = 0, n = 1     +infinity,      d = 0, n = -1    -infinity,        *)
(*     d = 0, n = 0     NaN,                                               *)
(*     d = -1           a finite real whose digits are not tracked (the    *)
(*                      irrational result of sin, cos, exp, log, sqrt),    *)
(*     d = -2           a float that is not tracked at all (it may be      *)
(*                      finite, infinite or NaN).                          *)
(* Rounding and overflow of float are not modelled, and neither is the     *)
(* sign of zero: 1/0 is +infinity.                                         *)
(***************************************************************************)
EXTENDS Integers, Sequences, FiniteSets, TLC

\* ------------------------------------------------------------------ bounds

\* The capacities are macros the user may redefine before including grad.h
\* (default 64); the model instantiates them with small values.  The reverse
\* tape is built with GRAD_REVERSE_TAPE_SIZE cells for the programs that use
\* every operation, and with more cells for the programs that use only the
\* arithmetic operations.
GRAD_FORWARD_TAPE_SIZE == 3
GRAD_REVERSE_TAPE_SIZE == 3
ArithmeticTapeSize == 4
CrossTapeSize == 5

\* How many grad_forward_t values the caller creates in one scope.
MaxForwardVars == 4
\* How many times the caller calls a start_scope function.
MaxScopes == 1
\* The largest exponent the caller passes to grad_forward_pow.
MaxExponent == 2

\* The values the caller passes to the init functions, and the constants it
\* passes to grad_forward_add_c and grad_forward_mul_c.
LeafValues == {0, 2}
ConstValues == {3}
Exponents == 0..MaxExponent

\* ------------------------------------------------------------ grad_real_t

RECURSIVE Gcd(_, _)
Gcd(a, b) == IF b = 0 THEN a ELSE Gcd(b, a % b)

Abs(x) == IF x < 0 THEN -x ELSE x

\* The rational n/d (d > 0) in lowest terms.
Rat(n, d) ==
  LET g == Gcd(Abs(n), d) IN [n |-> n \div g, d |-> d \div g]

Real(i) == [n |-> i, d |-> 1]

Zero == Real(0)
One == Real(1)
PosInf == [n |-> 1, d |-> 0]
NegInf == [n |-> -1, d |-> 0]
NaN == [n |-> 0, d |-> 0]
Finite == [n |-> 0, d |-> -1]
Untracked == [n |-> 0, d |-> -2]

IsRat(a) == a.d > 0
IsInf(a) == a.d = 0 /\ a.n # 0
IsNaN(a) == a = NaN
Sign(n) == IF n < 0 THEN -1 ELSE IF n > 0 THEN 1 ELSE 0

\* a + b
RAdd(a, b) ==
  IF IsNaN(a) \/ IsNaN(b) THEN NaN
  ELSE IF a = Untracked \/ b = Untracked THEN Untracked
  ELSE IF IsInf(a) /\ IsInf(b) THEN (IF a = b THEN a ELSE NaN)
  ELSE IF IsInf(a) THEN a
  ELSE IF IsInf(b) THEN b
  ELSE IF a = Finite \/ b = Finite THEN Finite
  ELSE Rat(a.n * b.d + b.n * a.d, a.d * b.d)

\* a * b
RMul(a, b) ==
  IF IsNaN(a) \/ IsNaN(b) THEN NaN
  ELSE IF a = Untracked \/ b = Untracked THEN Untracked
  ELSE IF IsInf(a) \/ IsInf(b) THEN
         IF a = Zero \/ b = Zero THEN NaN
         ELSE IF a = Finite \/ b = Finite THEN Untracked
         ELSE [n |-> Sign(a.n) * Sign(b.n), d |-> 0]
  ELSE IF a = Zero \/ b = Zero THEN Zero
  ELSE IF a = Finite \/ b = Finite THEN Finite
  ELSE Rat(a.n * b.n, a.d * b.d)

\* -a
RNeg(a) == IF a.d >= 0 THEN [n |-> -a.n, d |-> a.d] ELSE a

\* 1.0 / a
RInv(a) ==
  IF IsNaN(a) THEN NaN
  ELSE IF a.d < 0 THEN Untracked
  ELSE IF IsInf(a) THEN Zero
  ELSE IF a.n = 0 THEN PosInf
  ELSE [n |-> Sign(a.n) * a.d, d |-> Abs(a.n)]

\* a / b
RDiv(a, b) == RMul(a, RInv(b))

\* GRAD_SIN, GRAD_COS, GRAD_EXP, GRAD_LOG, GRAD_SQRT: exact where the result
\* is rational, otherwise a finite real that is not tracked.
GRAD_SIN(a) ==
  IF IsNaN(a) \/ IsInf(a) THEN NaN
  ELSE IF a.d < 0 THEN a
  ELSE IF a = Zero THEN Zero ELSE Finite

GRAD_COS(a) ==
  IF IsNaN(a) \/ IsInf(a) THEN NaN
  ELSE IF a.d < 0 THEN a
  ELSE IF a = Zero THEN One ELSE Finite

GRAD_EXP(a) ==
  IF IsNaN(a) THEN NaN
  ELSE IF a = PosInf THEN PosInf
  ELSE IF a = NegInf THEN Zero
  ELSE IF a.d < 0 THEN a
  ELSE IF a = Zero THEN One ELSE Finite

GRAD_LOG(a) ==
  IF IsNaN(a) \/ a = NegInf THEN NaN
  ELSE IF a = PosInf THEN PosInf
  ELSE IF a.d < 0 THEN Untracked
  ELSE IF a.n < 0 THEN NaN
  ELSE IF a.n = 0 THEN NegInf
  ELSE IF a = One THEN Zero ELSE Finite

\* The integer square root of a perfect square, -1 otherwise.
ISqrt(k) ==
  IF \E s \in 0..k : s * s = k THEN CHOOSE s \in 0..k : s * s = k ELSE -1

GRAD_SQRT(a) ==
  IF IsNaN(a) \/ a = NegInf THEN NaN
  ELSE IF a = PosInf THEN PosInf
  ELSE IF a.d < 0 THEN Untracked
  ELSE IF a.n < 0 THEN NaN
  ELSE IF ISqrt(a.n) >= 0 /\ ISqrt(a.d) >= 0
         THEN [n |-> ISqrt(a.n), d |-> ISqrt(a.d)]
  ELSE Finite

\* GRAD_POW(a, e) for an integer exponent e: pow(x, 0) is 1 for every x,
\* NaN included; a negative exponent is the reciprocal of the positive power.
RECURSIVE IntPow(_, _)
IntPow(a, k) == IF k = 0 THEN One ELSE RMul(a, IntPow(a, k - 1))

GRAD_POW(a, e) ==
  IF e = 0 THEN One
  ELSE IF e > 0 THEN IntPow(a, e)
  ELSE RInv(IntPow(a, -e))


\* --------------------------------------------------------- forward engine

Slots == 0..(GRAD_FORWARD_TAPE_SIZE - 1)

\* grad_forward_t result = {0};
ZeroForward ==
  [id |-> 0, value |-> Zero, derivative |-> [i \in Slots |-> Zero]]

\* The loop "for (i = 0; i < grad_forward_current_id; i++) result.derivative[i]
\* = f(i)" on a zero-initialised result: the slots from cur on stay 0.
Upto(cur, f(_)) == [i \in Slots |-> IF i < cur THEN f(i) ELSE Zero]

\* grad_forward_start_scope that leaves the counter alone.
grad_forward_start_scope_no_reset(cur) == cur

grad_forward_start_scope(cur) == 0

\* The result of grad_forward_init: ok is FALSE when the assertion fails (the
\* process aborts), otherwise cur is the incremented counter.
grad_forward_init(cur, value) ==
  IF cur < GRAD_FORWARD_TAPE_SIZE
    THEN [ok |-> TRUE,
          cur |-> cur + 1,
          result |-> [id |-> cur, value |-> value,
                      derivative |-> [i \in Slots |->
                                        IF i = cur THEN One ELSE Zero]]]
    ELSE [ok |-> FALSE, cur |-> cur, result |-> ZeroForward]

grad_forward_add(cur, left, right) ==
  [ZeroForward EXCEPT
     !.value = RAdd(left.value, right.value),
     !.derivative = Upto(cur, LAMBDA i :
                      RAdd(left.derivative[i], right.derivative[i]))]

\* memcpy of all GRAD_FORWARD_TAPE_SIZE entries.
grad_forward_add_c(cur, grad, constant) ==
  [ZeroForward EXCEPT
     !.value = RAdd(grad.value, constant),
     !.derivative = [i \in Slots |-> grad.derivative[i]]]

\* grad_forward_mul without the second term of the product rule.
grad_forward_mul_one_term(cur, left, right) ==
  [ZeroForward EXCEPT
     !.value = RMul(left.value, right.value),
     !.derivative = Upto(cur, LAMBDA i :
                      RMul(left.derivative[i], right.value))]

grad_forward_mul(cur, left, right) ==
  [ZeroForward EXCEPT
     !.value = RMul(left.value, right.value),
     !.derivative = Upto(cur, LAMBDA i :
                      RAdd(RMul(left.derivative[i], right.value),
                           RMul(left.value, right.derivative[i])))]

grad_forward_mul_c(cur, grad, constant) ==
  [ZeroForward EXCEPT
     !.value = RMul(grad.value, constant),
     !.derivative = Upto(cur, LAMBDA i : RMul(constant, grad.derivative[i]))]

grad_forward_inv(cur, grad) ==
  LET inv_sq == RInv(RMul(grad.value, grad.value)) IN
  [ZeroForward EXCEPT
     !.value = RInv(grad.value),
     !.derivative = Upto(cur, LAMBDA i :
                      RMul(RNeg(grad.derivative[i]), inv_sq))]

grad_forward_div(cur, left, right) ==
  grad_forward_mul(cur, left, grad_forward_inv(cur, right))

grad_forward_neg(cur, grad) == grad_forward_mul_c(cur, grad, Real(-1))

grad_forward_sub(cur, left, right) ==
  grad_forward_add(cur, left, grad_forward_neg(cur, right))

grad_forward_exp(cur, grad) ==
  LET v == GRAD_EXP(grad.value) IN
  [ZeroForward EXCEPT
     !.value = v,
     !.derivative = Upto(cur, LAMBDA i : RMul(v, grad.derivative[i]))]

grad_forward_log(cur, grad) ==
  LET inv == RInv(grad.value) IN
  [ZeroForward EXCEPT
     !.value = GRAD_LOG(grad.value),
     !.derivative = Upto(cur, LAMBDA i : RMul(inv, grad.derivative[i]))]

grad_forward_sin(cur, grad) ==
  LET val == GRAD_COS(grad.value) IN
  [ZeroForward EXCEPT
     !.value = GRAD_SIN(grad.value),
     !.derivative = Upto(cur, LAMBDA i : RMul(val, grad.derivative[i]))]

grad_forward_cos(cur, grad) ==
  LET val == RNeg(GRAD_SIN(grad.value)) IN
  [ZeroForward EXCEPT
     !.value = GRAD_COS(grad.value),
     !.derivative = Upto(cur, LAMBDA i : RMul(val, grad.derivative[i]))]

grad_forward_tan(cur, grad) ==
  grad_forward_div(cur, grad_forward_sin(cur, grad),
                   grad_forward_cos(cur, grad))

grad_forward_sqrt(cur, grad) ==
  LET v == GRAD_SQRT(grad.value)
      inv == RDiv(Rat(1, 2), v) IN
  [ZeroForward EXCEPT
     !.value = v,
     !.derivative = Upto(cur, LAMBDA i : RMul(inv, grad.derivative[i]))]

\* e is an integer here: the callers of the model pass integer exponents.
grad_forward_pow(cur, grad, e) ==
  LET val == GRAD_POW(grad.value, e - 1) IN
  [ZeroForward EXCEPT
     !.value = GRAD_POW(grad.value, e),
     !.derivative = Upto(cur, LAMBDA i :
                      RMul(RMul(Real(e), val), grad.derivative[i]))]

\* --------------------------------------------------------- reverse engine

\* A null pointer.
NULL == -1

\* The tape is a global array: zero-initialised storage.
ZeroNode ==
  [value |-> Zero, derivative |-> Zero, operation |-> "NONE",
   left |-> NULL, right |-> NULL]

\* grad_reverse_t grad_reverse_tape[GRAD_REVERSE_TAPE_SIZE], for a build with
\* GRAD_REVERSE_TAPE_SIZE = size.
ZeroTape(size) == [i \in 0..(size - 1) |-> ZeroNode]

\* The GRAD_REVERSE_TAPE_SIZE the array t was built with: its length.
Capacity(t) == Cardinality(DOMAIN t)

\* The reverse engine is R = [tape, cur, ok]: the array, the counter
\* grad_reverse_current_id, and whether no assertion has failed.  A pointer to
\* a node is its index.  A function called after a failed assertion does
\* nothing: the process has aborted.
\* grad_reverse_start_scope that leaves the counter alone.
grad_reverse_start_scope_no_reset(R) == R

grad_reverse_start_scope(R) == [R EXCEPT !.cur = 0]

\* grad_reverse_init with "<=" written for "<" in the assertion.
grad_reverse_init_off_by_one(R, value) ==
  IF ~R.ok THEN R
  ELSE IF R.cur <= Capacity(R.tape)
    THEN [R EXCEPT !.cur = R.cur + 1,
                   !.tape[R.cur].value = value,
                   !.tape[R.cur].operation = "NONE",
                   !.tape[R.cur].derivative = Zero]
    ELSE [R EXCEPT !.ok = FALSE]

\* grad_reverse_init without "result->derivative = 0".
grad_reverse_init_keeps_derivative(R, value) ==
  IF ~R.ok THEN R
  ELSE IF R.cur < Capacity(R.tape)
    THEN [R EXCEPT !.cur = R.cur + 1,
                   !.tape[R.cur].value = value,
                   !.tape[R.cur].operation = "NONE"]
    ELSE [R EXCEPT !.ok = FALSE]

grad_reverse_init(R, value) ==
  IF ~R.ok THEN R
  ELSE IF R.cur < Capacity(R.tape)
    THEN [R EXCEPT !.cur = R.cur + 1,
                   !.tape[R.cur].value = value,
                   !.tape[R.cur].operation = "NONE",
                   !.tape[R.cur].derivative = Zero]
    ELSE [R EXCEPT !.ok = FALSE]

\* result->operation = op; result->left = left; result->right = right, on the
\* node grad_reverse_init(value) returned (right = NULL: not assigned).
Record(R, value, op, left, right) ==
  LET R1 == grad_reverse_init(R, value) IN
  IF ~R1.ok THEN R1
  ELSE [R1 EXCEPT !.tape[R.cur].operation = op,
                  !.tape[R.cur].left = left,
                  !.tape[R.cur].right =
                     IF right = NULL THEN R.tape[R.cur].right ELSE right]

grad_reverse_add(R, left, right) ==
  Record(R, RAdd(R.tape[left].value, R.tape[right].value), "ADD", left, right)

grad_reverse_mul(R, left, right) ==
  Record(R, RMul(R.tape[left].value, R.tape[right].value), "MUL", left, right)

grad_reverse_neg(R, grad) ==
  Record(R, RNeg(R.tape[grad].value), "NEG", grad, NULL)

grad_reverse_inv(R, grad) ==
  Record(R, RInv(R.tape[grad].value), "INV", grad, NULL)

\* grad_reverse_sub that takes the cell after the NEG node for the NEG node.
grad_reverse_sub_wrong_cell(R, left, right) ==
  grad_reverse_add(grad_reverse_neg(R, right), left, R.cur + 1)

\* The pointer grad_reverse_neg returns is the cell R.cur it appended.
grad_reverse_sub(R, left, right) ==
  grad_reverse_add(grad_reverse_neg(R, right), left, R.cur)

grad_reverse_div(R, left, right) ==
  grad_reverse_mul(grad_reverse_inv(R, right), left, R.cur)

grad_reverse_sin(R, grad) ==
  Record(R, GRAD_SIN(R.tape[grad].value), "SIN", grad, NULL)

grad_reverse_cos(R, grad) ==
  Record(R, GRAD_COS(R.tape[grad].value), "COS", grad, NULL)

grad_reverse_exp(R, grad) ==
  Record(R, GRAD_EXP(R.tape[grad].value), "EXP", grad, NULL)

grad_reverse_log(R, grad) ==
  Record(R, GRAD_LOG(R.tape[grad].value), "LOG", grad, NULL)

\* Accumulate with "=" written for "+=".
AccumulateAssigns(tape, p, x) == [tape EXCEPT ![p].derivative = x]

\* tape[p].derivative += x
Accumulate(tape, p, x) ==
  [tape EXCEPT ![p].derivative = RAdd(tape[p].derivative, x)]

\* One iteration of the second loop of grad_reverse_backward: the switch on
\* the operation of node i.
Propagate(tape, i) ==
  LET grad == tape[i] IN
  CASE grad.operation = "ADD" ->
         Accumulate(Accumulate(tape, grad.left, grad.derivative),
                    grad.right, grad.derivative)
    [] grad.operation = "MUL" ->
         LET t1 == Accumulate(tape, grad.left,
                              RMul(tape[grad.right].value, grad.derivative))
         IN Accumulate(t1, grad.right,
                       RMul(t1[grad.left].value, t1[i].derivative))
    [] grad.operation = "NEG" ->
         Accumulate(tape, grad.left, RMul(Real(-1), grad.derivative))
    [] grad.operation = "INV" ->
         Accumulate(tape, grad.left,
                    RDiv(RNeg(grad.derivative),
                         RMul(tape[grad.left].value, tape[grad.left].value)))
    [] grad.operation = "SIN" ->
         Accumulate(tape, grad.left,
                    RMul(GRAD_COS(tape[grad.left].value), grad.derivative))
    [] grad.operation = "COS" ->
         Accumulate(tape, grad.left,
                    RMul(RNeg(GRAD_SIN(tape[grad.left].value)),
                         grad.derivative))
    [] grad.operation = "EXP" ->
         Accumulate(tape, grad.left,
                    RMul(GRAD_EXP(tape[grad.left].value), grad.derivative))
    [] grad.operation = "LOG" ->
         Accumulate(tape, grad.left,
                    RDiv(grad.derivative, tape[grad.left].value))
    [] OTHER -> tape

\* for (i = cur - 1; i >= 0; --i): the iterations i, i-1, ..., 0.
RECURSIVE Sweep(_, _)
Sweep(tape, i) == IF i < 0 THEN tape ELSE Sweep(Propagate(tape, i), i - 1)

\* grad_reverse_backward without the loop that zeroes the live adjoints.
grad_reverse_backward_no_zeroing(R, output) ==
  LET seeded == [R.tape EXCEPT ![output].derivative = One]
  IN [R EXCEPT !.tape = Sweep(seeded, R.cur - 1)]

grad_reverse_backward(R, output) ==
  LET zeroed == [i \in DOMAIN R.tape |->
                   IF i < R.cur THEN [R.tape[i] EXCEPT !.derivative = Zero]
                   ELSE R.tape[i]]
      seeded == [zeroed EXCEPT ![output].derivative = One]
  IN [R EXCEPT !.tape = Sweep(seeded, R.cur - 1)]

\* ------------------------------------------------------------- the caller

VARIABLES
  driver,    \* which engine the program uses: "forward", "reverse" or "cross"
  fwd_id,    \* grad_forward_current_id
  fvars,     \* the grad_forward_t values the caller holds, in creation order
  tape,      \* grad_reverse_tape
  rev_id,    \* grad_reverse_current_id
  aborted,   \* an assertion has failed: the process is gone
  hist,      \* the calls that returned since the last start_scope, in order:
             \* the init and operation calls, and the last backward call
             \* (a backward call takes the place of the one before it)
  scopes,    \* how many times start_scope has been called
  twin,      \* "cross" only: twin[k] is the reverse node built like fvars[k]
  out        \* "cross" only: the node the last call, a backward, was given
             \* (NULL if the last call was no backward)

vars == <<driver, fwd_id, fvars, tape, rev_id, aborted, hist, scopes, twin, out>>

\* A call: the function, its operands l and r (positions in fvars for the
\* forward engine, tape indices for the reverse engine) and its number c (the
\* value of init, the constant of add_c and mul_c, the exponent of pow).
Call(f, l, r, c) == [call |-> f, l |-> l, r |-> r, c |-> c]

Last(s) == s[Len(s)]

\* The forward engine with the caller's values: F = [cur, vars, ok].
ForwardState == [cur |-> fwd_id, vars |-> fvars, ok |-> ~aborted]

Keep(F, result) == [F EXCEPT !.vars = Append(F.vars, result)]

\* The effect of one forward call of the caller, who keeps the result.
ForwardCall(F, c) ==
  LET f == c.call
      a == F.vars[c.l]
      b == F.vars[c.r]
  IN
  CASE f = "init" ->
         LET r == grad_forward_init(F.cur, Real(c.c)) IN
         IF r.ok THEN [cur |-> r.cur, vars |-> Append(F.vars, r.result),
                       ok |-> TRUE]
         ELSE [F EXCEPT !.ok = FALSE]
    [] f = "add" -> Keep(F, grad_forward_add(F.cur, a, b))
    [] f = "add_c" -> Keep(F, grad_forward_add_c(F.cur, a, Real(c.c)))
    [] f = "mul" -> Keep(F, grad_forward_mul(F.cur, a, b))
    [] f = "mul_c" -> Keep(F, grad_forward_mul_c(F.cur, a, Real(c.c)))
    [] f = "inv" -> Keep(F, grad_forward_inv(F.cur, a))
    [] f = "div" -> Keep(F, grad_forward_div(F.cur, a, b))
    [] f = "neg" -> Keep(F, grad_forward_neg(F.cur, a))
    [] f = "sub" -> Keep(F, grad_forward_sub(F.cur, a, b))
    [] f = "exp" -> Keep(F, grad_forward_exp(F.cur, a))
    [] f = "log" -> Keep(F, grad_forward_log(F.cur, a))
    [] f = "sin" -> Keep(F, grad_forward_sin(F.cur, a))
    [] f = "cos" -> Keep(F, grad_forward_cos(F.cur, a))
    [] f = "tan" -> Keep(F, grad_forward_tan(F.cur, a))
    [] f = "sqrt" -> Keep(F, grad_forward_sqrt(F.cur, a))
    [] f = "pow" -> Keep(F, grad_forward_pow(F.cur, a, c.c))

\* The reverse engine: R = [tape, cur, ok].
ReverseState == [tape |-> tape, cur |-> rev_id, ok |-> ~aborted]

\* The effect of one reverse call of the caller.
ReverseCall(R, c) ==
  LET f == c.call IN
  CASE f = "init" -> grad_reverse_init(R, Real(c.c))
    [] f = "add" -> grad_reverse_add(R, c.l, c.r)
    [] f = "mul" -> grad_reverse_mul(R, c.l, c.r)
    [] f = "neg" -> grad_reverse_neg(R, c.l)
    [] f = "inv" -> grad_reverse_inv(R, c.l)
    [] f = "sub" -> grad_reverse_sub(R, c.l, c.r)
    [] f = "div" -> grad_reverse_div(R, c.l, c.r)
    [] f = "sin" -> grad_reverse_sin(R, c.l)
    [] f = "cos" -> grad_reverse_cos(R, c.l)
    [] f = "exp" -> grad_reverse_exp(R, c.l)
    [] f = "log" -> grad_reverse_log(R, c.l)
    [] f = "backward" -> grad_reverse_backward(R, c.l)

\* The pointer a construction call on R returns: the node appended last.
Returned(R, c) == IF c.call \in {"sub", "div"} THEN R.cur + 1 ELSE R.cur

\* ---------------------------------------------- a program of forward calls

\* How many values the call c adds to those the caller holds: every call
\* returns one, except an init that fails its assertion.
Kept(c) ==
  IF c.call = "init" /\ fwd_id >= GRAD_FORWARD_TAPE_SIZE THEN 0 ELSE 1

DoForward(c) ==
  /\ driver = "forward"
  /\ ~aborted
  /\ Len(fvars) + Kept(c) <= MaxForwardVars
  /\ LET F == ForwardCall(ForwardState, c) IN
       /\ fwd_id' = F.cur
       /\ fvars' = F.vars
       /\ aborted' = ~F.ok
       /\ hist' = IF F.ok THEN Append(hist, c) ELSE hist
  /\ UNCHANGED <<driver, tape, rev_id, scopes, twin, out>>

Held == 1..Len(fvars)

\* The caller drops the values of the scope it leaves.
ForwardStartScope ==
  /\ driver = "forward"
  /\ ~aborted
  /\ scopes < MaxScopes
  /\ fwd_id' = grad_forward_start_scope(fwd_id)
  /\ fvars' = <<>>
  /\ hist' = <<>>
  /\ scopes' = scopes + 1
  /\ UNCHANGED <<driver, tape, rev_id, aborted, twin, out>>

ForwardInit == \E v \in LeafValues : DoForward(Call("init", 0, 0, v))
ForwardAdd == \E i, j \in Held : DoForward(Call("add", i, j, 0))
ForwardAddC ==
  \E i \in Held, k \in ConstValues : DoForward(Call("add_c", i, 0, k))
ForwardMul == \E i, j \in Held : DoForward(Call("mul", i, j, 0))
ForwardMulC ==
  \E i \in Held, k \in ConstValues : DoForward(Call("mul_c", i, 0, k))
ForwardInv == \E i \in Held : DoForward(Call("inv", i, 0, 0))
ForwardDiv == \E i, j \in Held : DoForward(Call("div", i, j, 0))
ForwardNeg == \E i \in Held : DoForward(Call("neg", i, 0, 0))
ForwardSub == \E i, j \in Held : DoForward(Call("sub", i, j, 0))
ForwardExp == \E i \in Held : DoForward(Call("exp", i, 0, 0))
ForwardLog == \E i \in Held : DoForward(Call("log", i, 0, 0))
ForwardSin == \E i \in Held : DoForward(Call("sin", i, 0, 0))
ForwardCos == \E i \in Held : DoForward(Call("cos", i, 0, 0))
ForwardTan == \E i \in Held : DoForward(Call("tan", i, 0, 0))
ForwardSqrt == \E i \in Held : DoForward(Call("sqrt", i, 0, 0))
ForwardPow ==
  \E i \in Held, e \in Exponents : DoForward(Call("pow", i, 0, e))

\* ---------------------------------------------- a program of reverse calls

IsConstruction(c) == c.call # "backward"

DoReverse(c) ==
  /\ driver = "reverse"
  /\ ~aborted
  /\ LET R == ReverseCall(ReverseState, c) IN
       /\ tape' = R.tape
       /\ rev_id' = R.cur
       /\ aborted' = ~R.ok
       /\ hist' = IF ~R.ok THEN hist
                  ELSE IF IsConstruction(c) THEN Append(hist, c)
                  ELSE Append(SelectSeq(hist, IsConstruction), c)
  /\ UNCHANGED <<driver, fwd_id, fvars, scopes, twin, out>>

\* The nodes created in the current scope.
Live == 0..(rev_id - 1)

ReverseStartScope ==
  /\ driver = "reverse"
  /\ ~aborted
  /\ scopes < MaxScopes
  /\ LET R == grad_reverse_start_scope(ReverseState) IN
       /\ tape' = R.tape
       /\ rev_id' = R.cur
  /\ hist' = <<>>
  /\ scopes' = scopes + 1
  /\ UNCHANGED <<driver, fwd_id, fvars, aborted, twin, out>>

ReverseInit == \E v \in LeafValues : DoReverse(Call("init", 0, 0, v))
ReverseAdd == \E i, j \in Live : DoReverse(Call("add", i, j, 0))
ReverseMul == \E i, j \in Live : DoReverse(Call("mul", i, j, 0))
ReverseNeg == \E i \in Live : DoReverse(Call("neg", i, 0, 0))
ReverseInv == \E i \in Live : DoReverse(Call("inv", i, 0, 0))
ReverseSub == \E i, j \in Live : DoReverse(Call("sub", i, j, 0))
ReverseDiv == \E i, j \in Live : DoReverse(Call("div", i, j, 0))
ReverseSin == \E i \in Live : DoReverse(Call("sin", i, 0, 0))
ReverseCos == \E i \in Live : DoReverse(Call("cos", i, 0, 0))
ReverseExp == \E i \in Live : DoReverse(Call("exp", i, 0, 0))
ReverseLog == \E i \in Live : DoReverse(Call("log", i, 0, 0))
ReverseBackward == \E i \in Live : DoReverse(Call("backward", i, 0, 0))

\* ------------------------------- a program that runs both engines abreast

\* The caller builds one expression in both engines: each call is made on the
\* forward engine and then, with the twins of the operands, on the reverse
\* engine.  Here hist holds the construction calls only, so that hist[k] is
\* the call that made fvars[k].
DoCross(c) ==
  /\ driver = "cross"
  /\ ~aborted
  /\ Len(fvars) + Kept(c) <= MaxForwardVars
  /\ LET F == ForwardCall(ForwardState, c)
         R0 == [ReverseState EXCEPT !.ok = F.ok]
         R == ReverseCall(R0, IF c.call = "init" THEN c
                              ELSE Call(c.call, twin[c.l],
                                        IF c.r = 0 THEN 0 ELSE twin[c.r], 0))
     IN
       /\ fwd_id' = F.cur
       /\ fvars' = F.vars
       /\ tape' = R.tape
       /\ rev_id' = R.cur
       /\ aborted' = ~R.ok
       /\ twin' = IF R.ok THEN Append(twin, Returned(R0, c)) ELSE twin
       /\ hist' = IF R.ok THEN Append(hist, c) ELSE hist
  /\ out' = NULL
  /\ UNCHANGED <<driver, scopes>>

CrossInit == \E v \in LeafValues : DoCross(Call("init", 0, 0, v))
CrossAdd == \E i, j \in Held : DoCross(Call("add", i, j, 0))
CrossMul == \E i, j \in Held : DoCross(Call("mul", i, j, 0))
CrossNeg == \E i \in Held : DoCross(Call("neg", i, 0, 0))
CrossSub == \E i, j \in Held : DoCross(Call("sub", i, j, 0))

CrossBackward ==
  /\ driver = "cross"
  /\ ~aborted
  /\ \E k \in Held :
       /\ tape' = grad_reverse_backward(ReverseState, twin[k]).tape
       /\ out' = twin[k]
  /\ UNCHANGED <<driver, fwd_id, fvars, rev_id, aborted, hist, scopes, twin>>

\* ------------------------------------------------------- specifications

Start(size) ==
  /\ fwd_id = 0
  /\ fvars = <<>>
  /\ tape = ZeroTape(size)
  /\ rev_id = 0
  /\ aborted = FALSE
  /\ hist = <<>>
  /\ scopes = 0
  /\ twin = <<>>
  /\ out = NULL

NextForward ==
  \/ ForwardStartScope
  \/ ForwardInit
  \/ ForwardAdd
  \/ ForwardAddC
  \/ ForwardMul
  \/ ForwardMulC
  \/ ForwardInv
  \/ ForwardDiv
  \/ ForwardNeg
  \/ ForwardSub
  \/ ForwardExp
  \/ ForwardLog
  \/ ForwardSin
  \/ ForwardCos
  \/ ForwardTan
  \/ ForwardSqrt
  \/ ForwardPow

NextReverse ==
  \/ ReverseStartScope
  \/ ReverseInit
  \/ ReverseAdd
  \/ ReverseMul
  \/ ReverseNeg
  \/ ReverseInv
  \/ ReverseSub
  \/ ReverseDiv
  \/ ReverseSin
  \/ ReverseCos
  \/ ReverseExp
  \/ ReverseLog
  \/ ReverseBackward

\* A program that uses the forward engine.
InitForward == driver = "forward" /\ Start(GRAD_REVERSE_TAPE_SIZE)
SpecForward == InitForward /\ [][NextForward]_vars

\* A program that uses the reverse engine.
InitReverse == driver = "reverse" /\ Start(GRAD_REVERSE_TAPE_SIZE)
SpecReverse == InitReverse /\ [][NextReverse]_vars

\* The reverse calls that append leaves, ADD, MUL and NEG nodes.
NextArithmetic ==
  \/ ReverseInit
  \/ ReverseAdd
  \/ ReverseMul
  \/ ReverseNeg
  \/ ReverseSub
  \/ ReverseBackward

\* A program that uses the arithmetic operations of the reverse engine, in
\* the scope the process starts in.
InitArithmetic == driver = "reverse" /\ Start(ArithmeticTapeSize)
SpecArithmetic == InitArithmetic /\ [][NextArithmetic]_vars

NextCross ==
  \/ CrossInit
  \/ CrossAdd
  \/ CrossMul
  \/ CrossNeg
  \/ CrossSub
  \/ CrossBackward

\* A program that builds its expressions in both engines, in the scope the
\* process starts in.
InitCross == driver = "cross" /\ Start(CrossTapeSize)
SpecCross == InitCross /\ [][NextCross]_vars

\* A program that uses one of the two engines: they share no state.
Init == driver \in {"forward", "reverse"} /\ Start(GRAD_REVERSE_TAPE_SIZE)
Next == NextForward \/ NextReverse
Spec == Init /\ [][Next]_vars

\* ------------------------------------------------------- the derivatives

\* The partial derivative of the value of node o with respect to the value
\* of node k, by the differentiation rules for sum, product and negation: what
\* an adjoint is meant to be, for a tape of leaves, ADD, MUL and NEG nodes.
RECURSIVE Partial(_, _, _)
Partial(t, o, k) ==
  IF o = k THEN One
  ELSE IF o < k THEN Zero
  ELSE CASE t[o].operation = "ADD" ->
              RAdd(Partial(t, t[o].left, k), Partial(t, t[o].right, k))
         [] t[o].operation = "MUL" ->
              RAdd(RMul(Partial(t, t[o].left, k), t[t[o].right].value),
                   RMul(t[t[o].left].value, Partial(t, t[o].right, k)))
         [] t[o].operation = "NEG" -> RNeg(Partial(t, t[o].left, k))
         [] OTHER -> Zero

\* The live tape holds only leaves and ADD, MUL, NEG nodes (what init, add,
\* mul, neg and sub append).
Arithmetic ==
  \A i \in Live : tape[i].operation \in {"NONE", "ADD", "MUL", "NEG"}

\* grad_reverse_backward(output) has just returned.
AfterBackward ==
  /\ ~aborted
  /\ hist # <<>>
  /\ Last(hist).call = "backward"

\* C1: after grad_reverse_backward(output) on a tape built by init, add, mul,
\* neg and sub, the derivative field of every live node is the partial
\* derivative of output's value with respect to that node's value (0 for a
\* node the output does not depend on).
C1_AdjointsArePartials ==
  (driver = "reverse" /\ AfterBackward /\ Arithmetic) =>
    \A k \in Live : tape[k].derivative = Partial(tape, Last(hist).l, k)

\* f = x*x + x at x = 2: x is both operands of the MUL and feeds the ADD too;
\* f' = 2x + 1 = 5.
C1_Witness ==
  /\ driver = "reverse"
  /\ AfterBackward
  /\ rev_id = 3
  /\ Last(hist).l = 2
  /\ tape[0].operation = "NONE" /\ tape[0].value = Real(2)
  /\ tape[1].operation = "MUL" /\ tape[1].left = 0 /\ tape[1].right = 0
  /\ tape[2].operation = "ADD" /\ tape[2].left = 1 /\ tape[2].right = 0
  /\ tape[2].value = Real(6)
  /\ tape[0].derivative = Real(5)

\* The partial derivative of the k-th value of the caller (built as h[k]
\* says, from the values vs) with respect to the seed with id i, by the
\* differentiation rules; the derivative of x^0 is 0 and that of x^e is
\* e x^(e-1) for e >= 1.
RECURSIVE SeedPartial(_, _, _, _)
SeedPartial(h, vs, k, i) ==
  LET f == h[k].call
      dl == SeedPartial(h, vs, h[k].l, i)
      dr == SeedPartial(h, vs, h[k].r, i)
      lv == vs[h[k].l].value
      rv == vs[h[k].r].value
  IN
  CASE f = "init" -> IF vs[k].id = i THEN One ELSE Zero
    [] f = "add" -> RAdd(dl, dr)
    [] f = "add_c" -> dl
    [] f = "mul" -> RAdd(RMul(dl, rv), RMul(lv, dr))
    [] f = "mul_c" -> RMul(Real(h[k].c), dl)
    [] f = "neg" -> RNeg(dl)
    [] f = "sub" -> RAdd(dl, RNeg(dr))
    [] f = "pow" -> IF h[k].c = 0 THEN Zero
                    ELSE RMul(RMul(Real(h[k].c), IntPow(lv, h[k].c - 1)), dl)

\* The k-th value is composed of add, add_c, mul, mul_c, neg, sub and pow
\* over seeds.
RECURSIVE Polynomial(_, _)
Polynomial(h, k) ==
  LET f == h[k].call IN
  CASE f = "init" -> TRUE
    [] f \in {"add", "mul", "sub"} ->
         Polynomial(h, h[k].l) /\ Polynomial(h, h[k].r)
    [] f \in {"add_c", "mul_c", "neg", "pow"} -> Polynomial(h, h[k].l)
    [] OTHER -> FALSE

\* C2: every forward value composed of add, add_c, mul, mul_c, neg, sub and
\* pow with an exponent 0, 1, 2, ... holds in derivative[i], for every i below
\* grad_forward_current_id, its exact partial derivative with respect to seed
\* i, also for a seed created after the value.
C2_ForwardDerivativesExact ==
  driver = "forward" =>
    \A k \in Held : Polynomial(hist, k) =>
      \A i \in 0..(fwd_id - 1) :
        fvars[k].derivative[i] = SeedPartial(hist, fvars, k, i)

\* The k-th value has a pow with exponent 0 of a value that is 0 in it.
RECURSIVE PowZeroAtZero(_, _, _)
PowZeroAtZero(h, vs, k) ==
  LET f == h[k].call IN
  CASE f = "init" -> FALSE
    [] f \in {"add", "mul", "sub"} ->
         PowZeroAtZero(h, vs, h[k].l) \/ PowZeroAtZero(h, vs, h[k].r)
    [] f = "pow" ->
         (h[k].c = 0 /\ vs[h[k].l].value = Zero)
           \/ PowZeroAtZero(h, vs, h[k].l)
    [] OTHER -> PowZeroAtZero(h, vs, h[k].l)

\* C2 away from pow(0, 0): where the code computes 0 * pow(0, -1).
C2_ExactAwayFromPowZeroAtZero ==
  driver = "forward" =>
    \A k \in Held :
      (Polynomial(hist, k) /\ ~PowZeroAtZero(hist, fvars, k)) =>
        \A i \in 0..(fwd_id - 1) :
          fvars[k].derivative[i] = SeedPartial(hist, fvars, k, i)

\* C3: for an expression built by init, add, mul, neg and sub in both
\* engines, the forward value equals the reverse value and, for every seed x,
\* the forward derivative[x.id] equals the derivative field of x's reverse
\* leaf after grad_reverse_backward on the reverse result.
C3_ForwardAgreesWithReverse ==
  (driver = "cross" /\ ~aborted) =>
    \A k \in Held : twin[k] = out =>
      /\ fvars[k].value = tape[out].value
      /\ \A s \in Held :
           hist[s].call = "init" =>
             fvars[k].derivative[fvars[s].id] = tape[twin[s]].derivative

\* The expression x*x - y at x = 2: the derivatives 4 and -1 at the two seeds.
C3_Witness ==
  /\ driver = "cross" /\ ~aborted
  /\ Len(fvars) = 4 /\ out = twin[4]
  /\ hist[1].call = "init" /\ hist[2].call = "init"
  /\ hist[3] = Call("mul", 1, 1, 0)
  /\ hist[4] = Call("sub", 3, 2, 0)
  /\ tape[twin[1]].derivative = Real(4)
  /\ tape[twin[2]].derivative = Real(-1)
  /\ fvars[4].derivative[0] = Real(4)
  /\ fvars[4].derivative[1] = Real(-1)

\* ---------------------------------------------------------- the capacity

\* How many nodes a construction call appends.
Nodes(c) == IF c.call \in {"sub", "div"} THEN 2 ELSE 1

\* The construction calls the caller can make on the live nodes.
Constructions ==
  {Call("init", 0, 0, v) : v \in LeafValues}
    \cup {Call(f, i, j, 0) : f \in {"add", "mul", "sub", "div"},
                             i \in Live, j \in Live}
    \cup {Call(f, i, 0, 0) : f \in {"neg", "inv", "sin", "cos", "exp", "log"},
                             i \in Live}

\* C4: in both engines the counter never exceeds the capacity N; a creation
\* succeeds while fewer than N variables (nodes) exist, so an assertion fails
\* only with the counter at N; and the creation after the N-th fails the
\* assertion with the counter, the slots and the tape as they were.
C4_CapacityBoundary ==
  /\ fwd_id <= GRAD_FORWARD_TAPE_SIZE
  /\ rev_id <= Capacity(tape)
  /\ (aborted /\ driver = "forward") => fwd_id = GRAD_FORWARD_TAPE_SIZE
  /\ (aborted /\ driver = "reverse") => rev_id = Capacity(tape)
  /\ (~aborted /\ driver = "forward") =>
       \A v \in LeafValues :
         LET r == grad_forward_init(fwd_id, Real(v)) IN
         IF fwd_id < GRAD_FORWARD_TAPE_SIZE
           THEN r.ok /\ r.cur = fwd_id + 1
           ELSE ~r.ok /\ r.cur = fwd_id
  /\ (~aborted /\ driver = "reverse") =>
       \A c \in Constructions :
         LET R == ReverseCall(ReverseState, c) IN
         IF rev_id + Nodes(c) <= Capacity(tape)
           THEN R.ok /\ R.cur = rev_id + Nodes(c)
           ELSE /\ ~R.ok
                /\ R.cur = Capacity(tape)
                /\ rev_id = Capacity(tape) => R.tape = tape

\* A sub on a tape with one free cell: the NEG node is the N-th creation and
\* the ADD node, the (N+1)-th, fails the assertion.
C4_Witness ==
  /\ driver = "reverse"
  /\ aborted
  /\ rev_id = Capacity(tape)
  /\ Len(hist) = Capacity(tape) - 1
  /\ tape[rev_id - 1].operation = "NEG"

\* C5: every operand reference of a live node that is no leaf (left, and right
\* for ADD and MUL) points to a live cell with a smaller index than the node,
\* so the sweep from the last live index down to 0 visits a node after every
\* node that uses it.
C5_OperandsPrecede ==
  driver = "reverse" =>
    \A i \in Live :
      tape[i].operation # "NONE" =>
        /\ tape[i].left \in 0..(i - 1)
        /\ tape[i].operation \in {"ADD", "MUL"} => tape[i].right \in 0..(i - 1)

\* A sub in a scope that reuses the cells of the scope before it.
C5_Witness ==
  /\ driver = "reverse"
  /\ scopes = 1
  /\ rev_id = 3
  /\ tape[1].operation = "NEG" /\ tape[1].left = 0
  /\ tape[2].operation = "ADD" /\ tape[2].left = 0 /\ tape[2].right = 1

\* C6: the nodes appended after the output do not change what
\* grad_reverse_backward(output) leaves in the nodes up to the output: the
\* adjoints are those of the same call on the tape that ends at the output.
C6_LaterNodesIrrelevant ==
  (driver = "reverse" /\ AfterBackward) =>
    LET o == Last(hist).l
        alone == grad_reverse_backward(
                   [tape |-> tape, cur |-> o + 1, ok |-> TRUE], o).tape
    IN \A k \in 0..o : tape[k].derivative = alone[k].derivative

\* C6 for the nodes of init, add, mul, neg and sub.
C6_LaterArithmeticNodesIrrelevant ==
  (driver = "reverse" /\ AfterBackward /\ Arithmetic) =>
    LET o == Last(hist).l
        alone == grad_reverse_backward(
                   [tape |-> tape, cur |-> o + 1, ok |-> TRUE], o).tape
    IN \A k \in 0..o : tape[k].derivative = alone[k].derivative

\* ------------------------------------------------------------ the scopes

\* The calls h[k], h[k+1], ... made one after the other on the engine.
RECURSIVE ReplayReverse(_, _, _)
ReplayReverse(R, h, k) ==
  IF k > Len(h) THEN R ELSE ReplayReverse(ReverseCall(R, h[k]), h, k + 1)

RECURSIVE ReplayForward(_, _, _)
ReplayForward(F, h, k) ==
  IF k > Len(h) THEN F ELSE ReplayForward(ForwardCall(F, h[k]), h, k + 1)

\* What the caller can read of the reverse engine: the counter and, of every
\* live node, the value, the derivative, the operation and the operand
\* references the operation has.
View(R) ==
  [cur |-> R.cur,
   nodes |-> [i \in 0..(R.cur - 1) |->
                LET g == R.tape[i] IN
                [value |-> g.value,
                 derivative |-> g.derivative,
                 operation |-> g.operation,
                 left |-> IF g.operation = "NONE" THEN NULL ELSE g.left,
                 right |-> IF g.operation \in {"ADD", "MUL"} THEN g.right
                           ELSE NULL]]]

\* The engines of a process that has made no call yet.
FreshReverse == [tape |-> ZeroTape(Capacity(tape)), cur |-> 0, ok |-> TRUE]
FreshForward == [cur |-> 0, vars |-> <<>>, ok |-> TRUE]

\* C7: whatever was called before start_scope, the calls made since (on
\* variables and nodes of the new scope) leave the values, the forward
\* derivative vectors and the reverse adjoints that the same calls leave in a
\* process that has made no other call.  (A backward call overwrites what the
\* backward call before it left, so hist describes both runs.)
C7_ScopeIsolation ==
  /\ (driver = "reverse" /\ ~aborted) =>
       View(ReverseState) = View(ReplayReverse(FreshReverse, hist, 1))
  /\ (driver = "forward" /\ ~aborted) =>
       ForwardState = ReplayForward(FreshForward, hist, 1)

\* In its second scope the program has built x*x and called backward, on
\* cells that held other nodes and adjoints: the cell after the live ones
\* still holds a node of the first scope with its adjoint.
C7_Witness ==
  /\ driver = "reverse"
  /\ ~aborted
  /\ scopes = 1
  /\ rev_id = 2
  /\ hist = <<Call("init", 0, 0, 2), Call("mul", 0, 0, 0),
              Call("backward", 1, 0, 0)>>
  /\ tape[2].operation # "NONE"
  /\ tape[2].derivative # Zero

\* The operations the calls of h performed: all but the init and backward
\* calls.
Operations(h) ==
  Cardinality({k \in 1..Len(h) : h[k].call \notin {"init", "backward"}})

\* C8: with GRAD_REVERSE_TAPE_SIZE greater than the number of operations
\* performed in the scope, no call fails the capacity assertion.  (hist holds
\* the calls that returned: the call that failed is counted as one more
\* operation.)
C8_TapeSizedByOperations ==
  (driver = "reverse" /\ Capacity(tape) > Operations(hist) + 1) => ~aborted

\* --------------------------------------------------------------- the frame

\* C9: a construction call of the reverse engine that returns writes only the
\* cells from grad_reverse_current_id on that it appends: one cell for init,
\* add, mul, neg, inv, sin, cos, exp and log, two for sub and div (a NEG resp.
\* INV node of the right operand, then the ADD resp. MUL node that refers to
\* it); every other cell is unchanged and the appended nodes have adjoint 0.
C9_AppendOnly ==
  [][(driver = "reverse" /\ ~aborted' /\ Len(hist') = Len(hist) + 1
        /\ IsConstruction(Last(hist'))) =>
       LET c == Last(hist')
           n == IF c.call \in {"sub", "div"} THEN 2 ELSE 1
           top == rev_id + n - 1
       IN /\ rev_id' = rev_id + n
          /\ \A i \in DOMAIN tape :
               (i < rev_id \/ i > top) => tape'[i] = tape[i]
          /\ \A i \in rev_id..top : tape'[i].derivative = Zero
          /\ c.call = "sub" =>
               /\ tape'[rev_id].operation = "NEG"
               /\ tape'[rev_id].left = c.r
               /\ tape'[top].operation = "ADD"
               /\ tape'[top].left = c.l
               /\ tape'[top].right = rev_id
          /\ c.call = "div" =>
               /\ tape'[rev_id].operation = "INV"
               /\ tape'[rev_id].left = c.r
               /\ tape'[top].operation = "MUL"
               /\ tape'[top].left = c.l
               /\ tape'[top].right = rev_id
    ]_vars

\* In the scope after a start_scope, a div on a leaf has appended its INV
\* node and then its MUL node.
C9_Witness ==
  /\ driver = "reverse"
  /\ ~aborted
  /\ scopes = 1
  /\ rev_id = 3
  /\ Last(hist).call = "div"
  /\ tape[1].operation = "INV" /\ tape[2].operation = "MUL"
  /\ tape[0].derivative = Zero

\* How many init calls are among the calls of h.
Inits(h) == Cardinality({k \in 1..Len(h) : h[k].call = "init"})

\* C10: the k-th grad_forward_init that succeeds after start_scope returns a
\* variable with id k-1 whose derivative is 1 at k-1 and 0 elsewhere, and
\* leaves the counter at k; no operation changes the counter.
C10_SlotAccounting ==
  [][(driver = "forward" /\ Len(hist') = Len(hist) + 1) =>
       IF Last(hist').call = "init"
         THEN LET k == Inits(hist')
                  x == Last(fvars')
              IN /\ x.id = k - 1
                 /\ x.derivative =
                      [i \in Slots |-> IF i = k - 1 THEN One ELSE Zero]
                 /\ fwd_id' = k
         ELSE fwd_id' = fwd_id
    ]_vars

\* In its second scope the program holds two seeds and two values computed
\* from them.
C10_Witness ==
  /\ driver = "forward"
  /\ scopes = 1
  /\ fwd_id = 2
  /\ Len(fvars) = 4
  /\ hist[1].call = "init" /\ hist[2].call = "mul"
  /\ hist[3].call = "init" /\ fvars[3].id = 1
  /\ hist[4].call = "tan"

\* ------------------------------------------------- repeated backward calls

\* The fields of a tape cell a backward call has no business with.
Structure(g) ==
  [value |-> g.value, operation |-> g.operation,
   left |-> g.left, right |-> g.right]

\* C11: grad_reverse_backward does not accumulate across calls.  On the tape
\* of any reachable state (adjoints of earlier backward calls and cells of an
\* earlier scope included) and for any live nodes A and B, backward(A)
\* followed by backward(B) leaves the tape backward(B) alone leaves, so
\* backward(A) twice leaves what backward(A) once leaves; and backward(A)
\* changes neither the counter, nor the value, operation or operand
\* references of any cell, nor anything of a cell that is not live.
C11_BackwardDoesNotAccumulate ==
  (driver = "reverse" /\ ~aborted) =>
    \A A, B \in Live :
      LET S == ReverseState
          afterA == grad_reverse_backward(S, A)
          afterB == grad_reverse_backward(S, B)
          afterAB == grad_reverse_backward(afterA, B)
      IN /\ afterAB = afterB
         /\ grad_reverse_backward(afterA, A) = afterA
         /\ afterA.cur = S.cur
         /\ afterA.ok = S.ok
         /\ \A i \in DOMAIN S.tape :
              /\ Structure(afterA.tape[i]) = Structure(S.tape[i])
              /\ i >= S.cur => afterA.tape[i] = S.tape[i]

\* The program has built x and x*x with x = 2 and has called backward on the
\* product, which left the adjoints 4 and 1; backward on x leaves other
\* adjoints, 1 and 0, not their sums with the ones before.
C11_Witness ==
  /\ driver = "reverse"
  /\ ~aborted
  /\ rev_id = 2
  /\ hist = <<Call("init", 0, 0, 2), Call("mul", 0, 0, 0),
              Call("backward", 1, 0, 0)>>
  /\ tape[0].derivative = Real(4)
  /\ tape[1].derivative = One
  /\ LET again == grad_reverse_backward(ReverseState, 0).tape
     IN again[0].derivative = One /\ again[1].derivative = Zero

=============================================================================
